---- MODULE Spec2Model ----
(***************************************************************************)
(* Payment lifecycle of the videos bot (src/bot.py, src/oxapay.py):        *)
(* initiate_payment, the OxaPay webhook, deliver_access and the expiry     *)
(* checker, over the sqlite tables payments and purchases and the JSON     *)
(* catalog video_links.json.                                               *)
(*                                                                         *)
(* Scheduling is asyncio's: one event loop, a coroutine runs without       *)
(* interruption from one await to the next.  Every action below is one     *)
(* such run: it starts where a coroutine is entered or resumed and ends at *)
(* the next await that can suspend (a Telegram call, the invoice request)  *)
(* or at the coroutine's return.  The sqlite helpers are synchronous and   *)
(* never suspend.  `await request.json()` at the head of the webhook comes *)
(* before any access to shared state, so it is folded into the handler's   *)
(* first run.  The Telegram handlers (initiate_payment, toggle_package)    *)
(* are dispatched by an Application built without concurrent_updates, so   *)
(* the next one starts when the one before has returned; the expiry tasks  *)
(* and the webhook run beside them.                                        *)
(***************************************************************************)
EXTENDS Integers, Sequences, FiniteSets, Bags, TLC

\* ---------------------------------------------------------------- bounds
MaxInits == 1      \* calls of initiate_payment
MaxHooks == 2      \* webhook deliveries
MaxOrders == 3     \* calls of create_payment whose order_id is compared
MaxTime == 5       \* last reading of the clock, in ticks
TicksPerSecond == 2

\* ------------------------------------------------------------- constants
NoTrackId == 0     \* a payload without trackId (None or "")
NULL == 0          \* completed_at of a row that was never updated

\* the Telegram accounts that press a package button
Users == 101..(100 + MaxInits)
\* one of the four packages: the code treats them alike
PACKAGE_NAMES == {"100_videos"}
DefaultPrices == [p \in PACKAGE_NAMES |-> 15]
\* the default price of 100_videos, and another price
PriceValues == {15, 35}
InviteLinks == {"", "https://t.me/+invite"}
\* video_links.json without the key "packages" (load_json returns {} for a
\* missing file): links["packages"] raises KeyError
NoPackagesKey == << >>
WebhookStatuses == {"Paid", "Confirming", "Waiting", "Expired", "Failed"}
WEBHOOK_SECRET == "secret"
ReceivedSecrets == {"secret", "forged"}

\* packages an order_id is built for: two of the four keys of PACKAGE_NAMES
OrderPackages == {"100_videos", "1000_videos"}

InitIds == 1..MaxInits
HookIds == 1..MaxHooks
\* track ids the processor can issue, and one it never issues
TrackIds == 1..(MaxInits + 1)
PayloadTrackIds == {NoTrackId} \cup TrackIds

VARIABLES
    payments,        \* table payments: track_id -> row
    purchases,       \* table purchases: a bag of rows (the row id is left out)
    sent,            \* bot.send_message calls that succeeded: a bag
    prices,          \* video_links.json "prices"
    package_status,  \* video_links.json "package_status"
    packages,        \* video_links.json "packages": package -> invite link
    oxapay_issued,   \* number of invoices the processor has created
    init,            \* the initiate_payment handlers
    watcher,         \* the check_payment_expiry tasks, one per init slot
    hook,            \* the oxapay_webhook handlers
    response,        \* status tag of the response of the delivery handled last
    time,            \* time.time(), in ticks of 1/TicksPerSecond second
    order_ids        \* the order_id of every invoice request built: a bag

vars == <<payments, purchases, sent, prices, package_status, packages,
          oxapay_issued, init, watcher, hook, response, time, order_ids>>

ledger == <<payments, purchases, sent>>
catalog == <<prices, package_status, packages>>
gateway == <<time, order_ids>>

\* ----------------------------------------------------------- the Ledger
\* get_payment returns None for an unknown track_id
NonePayment == [user_id |-> 0, package |-> "", amount |-> 0, status |-> "",
                completed_at |-> NULL]

get_payment(db, track_id) ==
    IF track_id \in DOMAIN db THEN db[track_id] ELSE NonePayment

\* add_payment as INSERT OR REPLACE: the row of an existing track_id is
\* overwritten
add_payment_Replace(db, track_id, user_id, package, amount) ==
    [t \in DOMAIN db \cup {track_id} |->
        IF t = track_id
        THEN [user_id |-> user_id, package |-> package, amount |-> amount,
              status |-> "pending", completed_at |-> NULL]
        ELSE db[t]]

\* INSERT INTO payments; track_id is UNIQUE, the IntegrityError is logged
add_payment(db, track_id, user_id, package, amount) ==
    IF track_id \in DOMAIN db
    THEN db
    ELSE [t \in DOMAIN db \cup {track_id} |->
            IF t = track_id
            THEN [user_id |-> user_id, package |-> package, amount |-> amount,
                  status |-> "pending", completed_at |-> NULL]
            ELSE db[t]]

\* update_payment_status without the WHERE clause: every row is written
update_payment_status_NoWhere(db, track_id, status, now) ==
    [t \in DOMAIN db |-> [db[t] EXCEPT !.status = status, !.completed_at = now]]

\* update_payment_status as UPDATE payments SET status = ?: completed_at is
\* not written
update_payment_status_NoStamp(db, track_id, status, now) ==
    [t \in DOMAIN db |->
        IF t = track_id THEN [db[t] EXCEPT !.status = status] ELSE db[t]]

\* UPDATE payments SET status = ?, completed_at = ? WHERE track_id = ?
update_payment_status(db, track_id, status, now) ==
    [t \in DOMAIN db |->
        IF t = track_id
        THEN [db[t] EXCEPT !.status = status, !.completed_at = now]
        ELSE db[t]]

\* datetime.now() as update_payment_status reads it for a row: time only
\* advances, so every write of a row stamps it with a later value than the
\* one before.  The stamp kept is the ordinal of the write.
datetime_now(db, track_id) == get_payment(db, track_id).completed_at + 1

\* INSERT INTO purchases.  track_id is not a column of the table: it is the
\* history of which payment the row was written for.
add_purchase(tbl, user_id, package, amount, invite_link, track_id) ==
    tbl (+) SetToBag({[user_id |-> user_id, package |-> package,
                       amount |-> amount, invite_link |-> invite_link,
                       track_id |-> track_id]})

\* bot.send_message(chat_id, text) returning normally.  kind and track_id
\* stand for the text.
send_message(log, chat_id, kind, track_id) ==
    log (+) SetToBag({[chat_id |-> chat_id, kind |-> kind, track_id |-> track_id]})

get_prices(p) == p

\* int(time.time()): the clock reading truncated to whole seconds
int(ticks) == ticks \div TicksPerSecond

\* f"PKG_{package}_{user_id}_{int(time.time())}"
order_id(package, user_id, now) ==
    "PKG_" \o package \o "_" \o ToString(user_id) \o "_" \o ToString(int(now))

verify_webhook_signature(webhook_secret, received_secret) ==
    IF webhook_secret = "" \/ received_secret = ""
    THEN FALSE
    ELSE webhook_secret = received_secret

\* ------------------------------------------------------------- counting
RECURSIVE SumOver(_, _)
SumOver(bag, rows) ==
    IF rows = {} THEN 0
    ELSE LET r == CHOOSE x \in rows : TRUE
         IN  bag[r] + SumOver(bag, rows \ {r})

AccessNotices(t) ==
    SumOver(sent, {r \in DOMAIN sent : r.kind = "access" /\ r.track_id = t})
ExpiryNotices(t) ==
    SumOver(sent, {r \in DOMAIN sent : r.kind = "expiry" /\ r.track_id = t})
PurchasesFor(t) ==
    SumOver(purchases, {r \in DOMAIN purchases : r.track_id = t})

\* ------------------------------------------------------------------ Init
\* a handler that has returned keeps no locals: only its result
IdleInit == [pc |-> "idle", user_id |-> 0, package |-> "", amount |-> 0,
             track_id |-> NoTrackId, result |-> ""]
InitDone(result) == [IdleInit EXCEPT !.pc = "done", !.result = result]
NoWatcher == [pc |-> "none", user_id |-> 0, track_id |-> NoTrackId,
              package |-> "", amount |-> 0]
\* a task that has ended: its outcome and the track_id it was created for
WatcherDone(w, outcome) == [NoWatcher EXCEPT !.pc = outcome, !.track_id = w.track_id]
IdleHook == [pc |-> "idle", track_id |-> NoTrackId, user_id |-> 0,
             package |-> "", invite_link |-> ""]
DoneHook == [IdleHook EXCEPT !.pc = "done"]
\* deliver_access raised out of the handler: HTTPException(500)
RaisedHook == [IdleHook EXCEPT !.pc = "raised"]
\* a handler whose deliver_access logged a failure: the outcome and the
\* track_id of the delivery it handled
HookEnded(hk, outcome) == [IdleHook EXCEPT !.pc = outcome, !.track_id = hk.track_id]

Init ==
    /\ payments = [t \in {} |-> NonePayment]
    /\ purchases = EmptyBag
    /\ sent = EmptyBag
    /\ prices = DefaultPrices
    /\ package_status = [p \in PACKAGE_NAMES |-> TRUE]
    /\ packages = [p \in PACKAGE_NAMES |-> "https://t.me/+invite"]
    /\ oxapay_issued = 0
    /\ init = [i \in InitIds |-> IdleInit]
    /\ watcher = [i \in InitIds |-> NoWatcher]
    /\ hook = [h \in HookIds |-> IdleHook]
    /\ response = ""
    /\ time = 0
    /\ order_ids = EmptyBag

\* no Telegram handler is running
DispatcherFree == \A i \in InitIds : init[i].pc \in {"idle", "done"}

\* ------------------------------------------------- catalog (admin side)
\* toggle_package, a Telegram handler: save_json comes before its awaits
toggle_package(p) ==
    /\ DispatcherFree
    /\ package_status' = [package_status EXCEPT ![p] = ~package_status[p]]
    /\ UNCHANGED <<gateway, payments, purchases, sent, prices, packages,
                   oxapay_issued, init, watcher, hook, response>>

\* an edit of "prices" in video_links.json
EditPrice(p, v) ==
    /\ v # prices[p]
    /\ prices' = [prices EXCEPT ![p] = v]
    /\ UNCHANGED <<gateway, payments, purchases, sent, package_status, packages,
                   oxapay_issued, init, watcher, hook, response>>

\* an edit of "packages" in video_links.json
EditLink(p, v) ==
    /\ packages # NoPackagesKey
    /\ v # packages[p]
    /\ packages' = [packages EXCEPT ![p] = v]
    /\ UNCHANGED <<gateway, payments, purchases, sent, prices, package_status,
                   oxapay_issued, init, watcher, hook, response>>

\* video_links.json is replaced by a file without "packages", or removed
RemovePackages ==
    /\ packages # NoPackagesKey
    /\ packages' = NoPackagesKey
    /\ UNCHANGED <<gateway, payments, purchases, sent, prices, package_status,
                   oxapay_issued, init, watcher, hook, response>>

\* ------------------------------------------------------ initiate_payment
\* from the entry (the price is read) over the "Creating payment invoice..."
\* message to `await create_oxapay_invoice(...)`.  No code runs between these
\* two awaits, so they are one suspension.
initiate_payment(i, user_id, package) ==
    /\ init[i].pc = "idle"
    /\ DispatcherFree
    /\ IF i = 1 THEN TRUE ELSE init[i - 1].pc = "done"
    /\ init' = [init EXCEPT ![i] = [pc |-> "invoice", user_id |-> user_id,
                                    package |-> package,
                                    amount |-> get_prices(prices)[package],
                                    track_id |-> NoTrackId, result |-> ""]]
    /\ UNCHANGED <<gateway, ledger, catalog, oxapay_issued, watcher, hook, response>>

\* the "Creating payment invoice..." edit_message_text raises: the handler is
\* abandoned before the invoice is requested
CreatingEditFails(i) ==
    /\ init[i].pc = "invoice"
    /\ init' = [init EXCEPT ![i] = InitDone("raised")]
    /\ UNCHANGED <<gateway, ledger, catalog, oxapay_issued, watcher, hook, response>>

\* create_oxapay_invoice returns an invoice with track_id: add_payment, then
\* `await query.edit_message_text(<invoice>)`
InvoiceCreated(i, track_id) ==
    /\ init[i].pc = "invoice"
    /\ oxapay_issued' = oxapay_issued + 1
    /\ payments' = add_payment(payments, track_id, init[i].user_id,
                               init[i].package, init[i].amount)
    /\ init' = [init EXCEPT ![i].pc = "present", ![i].track_id = track_id]
    /\ UNCHANGED <<gateway, purchases, sent, catalog, watcher, hook, response>>

\* InvoiceFailed that falls through to create_task: an expiry task is started
\* for an invoice that was never created
InvoiceFailed_WatcherStarted(i) ==
    /\ init[i].pc = "invoice"
    /\ init' = [init EXCEPT ![i] = InitDone("retry_error")]
    /\ watcher' = [watcher EXCEPT ![i] =
            [pc |-> "sleep", user_id |-> init[i].user_id, track_id |-> NoTrackId,
             package |-> init[i].package, amount |-> init[i].amount]]
    /\ UNCHANGED <<gateway, ledger, catalog, oxapay_issued, hook, response>>

\* create_oxapay_invoice returns None (create_payment raised): the retry
\* message is shown
InvoiceFailed(i) ==
    /\ init[i].pc = "invoice"
    /\ init' = [init EXCEPT ![i] = InitDone("retry_error")]
    /\ UNCHANGED <<gateway, ledger, catalog, oxapay_issued, watcher, hook, response>>

\* the invoice message was shown: asyncio.create_task(check_payment_expiry(
\* user_id, track_id, package, amount)), and the handler returns
PresentOk(i) ==
    /\ init[i].pc = "present"
    /\ init' = [init EXCEPT ![i] = InitDone("invoice_shown")]
    /\ watcher' = [watcher EXCEPT ![i] =
            [pc |-> "sleep", user_id |-> init[i].user_id,
             track_id |-> init[i].track_id, package |-> init[i].package,
             amount |-> init[i].amount]]
    /\ UNCHANGED <<gateway, ledger, catalog, oxapay_issued, hook, response>>

\* the invoice message raises: the handler is abandoned before create_task
PresentFails(i) ==
    /\ init[i].pc = "present"
    /\ init' = [init EXCEPT ![i] = InitDone("raised")]
    /\ UNCHANGED <<gateway, ledger, catalog, oxapay_issued, watcher, hook, response>>

\* -------------------------------------------------- check_payment_expiry
\* check_payment_expiry without the test of the status: every payment found
\* is notified
check_payment_expiry_NoStatusTest(i) ==
    /\ watcher[i].pc = "sleep"
    /\ LET payment == get_payment(payments, watcher[i].track_id)
       IN  watcher' = [watcher EXCEPT ![i] =
                IF payment # NonePayment
                THEN [watcher[i] EXCEPT !.pc = "send"]
                ELSE WatcherDone(watcher[i], "noop")]
    /\ UNCHANGED <<gateway, ledger, catalog, oxapay_issued, init, hook, response>>

\* the task wakes from asyncio.sleep(1800), reads the payment and, if it is
\* pending, goes to `await bot.send_message(<expired>)`
check_payment_expiry(i) ==
    /\ watcher[i].pc = "sleep"
    /\ LET payment == get_payment(payments, watcher[i].track_id)
       IN  watcher' = [watcher EXCEPT ![i] =
                IF payment # NonePayment /\ payment.status = "pending"
                THEN [watcher[i] EXCEPT !.pc = "send"]
                ELSE WatcherDone(watcher[i], "noop")]
    /\ UNCHANGED <<gateway, ledger, catalog, oxapay_issued, init, hook, response>>

\* ExpirySendOk with the status write forgotten: the notice is sent and the
\* row is left as it was
ExpirySendOk_StatusNotWritten(i) ==
    /\ watcher[i].pc = "send"
    /\ sent' = send_message(sent, watcher[i].user_id, "expiry", watcher[i].track_id)
    /\ watcher' = [watcher EXCEPT ![i] = WatcherDone(watcher[i], "notified")]
    /\ UNCHANGED <<gateway, payments, purchases, catalog, oxapay_issued, init, hook, response>>

\* the expiry notice was sent: update_payment_status(track_id, "expired")
ExpirySendOk(i) ==
    /\ watcher[i].pc = "send"
    /\ sent' = send_message(sent, watcher[i].user_id, "expiry", watcher[i].track_id)
    /\ payments' = update_payment_status(payments, watcher[i].track_id, "expired",
                                         datetime_now(payments, watcher[i].track_id))
    /\ watcher' = [watcher EXCEPT ![i] = WatcherDone(watcher[i], "notified")]
    /\ UNCHANGED <<gateway, purchases, catalog, oxapay_issued, init, hook, response>>

\* ExpirySendFails with update_payment_status moved out of the try: the
\* status is written although the notice was not sent
ExpirySendFails_StatusWritten(i) ==
    /\ watcher[i].pc = "send"
    /\ payments' = update_payment_status(payments, watcher[i].track_id, "expired",
                                         datetime_now(payments, watcher[i].track_id))
    /\ watcher' = [watcher EXCEPT ![i] = WatcherDone(watcher[i], "send_failed")]
    /\ UNCHANGED <<gateway, purchases, sent, catalog, oxapay_issued, init, hook, response>>

\* send_message raised: the except branch only logs
ExpirySendFails(i) ==
    /\ watcher[i].pc = "send"
    /\ watcher' = [watcher EXCEPT ![i] = WatcherDone(watcher[i], "send_failed")]
    /\ UNCHANGED <<gateway, ledger, catalog, oxapay_issued, init, hook, response>>

\* -------------------------------------------------------- oxapay_webhook
\* webhook_branch with the `if not payment` test falling through to the last
\* else: an unknown track_id is answered like an unrecognised status
webhook_branch_UnknownAsPending(payment, status) ==
    IF payment = NonePayment THEN "pending"
    ELSE IF payment.status = "completed" THEN "already_processed"
    ELSE IF status \in {"Paid", "Confirming"} THEN "success"
    ELSE IF status = "Expired" THEN "expired"
    ELSE IF status = "Failed" THEN "failed"
    ELSE "pending"

\* webhook_branch without the "already processed" test
webhook_branch_NoCompletedCheck(payment, status) ==
    IF payment = NonePayment THEN "ignored"
    ELSE IF status \in {"Paid", "Confirming"} THEN "success"
    ELSE IF status = "Expired" THEN "expired"
    ELSE IF status = "Failed" THEN "failed"
    ELSE "pending"

\* the if-chain of the handler: the status tag of the response it returns
webhook_branch(payment, status) ==
    IF payment = NonePayment THEN "ignored"
    ELSE IF payment.status = "completed" THEN "already_processed"
    ELSE IF status \in {"Paid", "Confirming"} THEN "success"
    ELSE IF status = "Expired" THEN "expired"
    ELSE IF status = "Failed" THEN "failed"
    ELSE "pending"

\* branch_status with the last else writing the status too: an unrecognised
\* report stores pending
branch_status_PendingWritten(branch) ==
    IF branch = "success" THEN "completed"
    ELSE IF branch = "expired" THEN "expired"
    ELSE IF branch = "failed" THEN "failed"
    ELSE IF branch = "pending" THEN "pending"
    ELSE ""

\* branch_status with Expired and Failed stored as one status
branch_status_FailedAsExpired(branch) ==
    IF branch = "success" THEN "completed"
    ELSE IF branch \in {"expired", "failed"} THEN "expired"
    ELSE ""

\* the status a branch writes with update_payment_status ("" for none)
branch_status(branch) ==
    IF branch = "success" THEN "completed"
    ELSE IF branch = "expired" THEN "expired"
    ELSE IF branch = "failed" THEN "failed"
    ELSE ""

\* deliver_access up to its first await: the handler's state when the webhook
\* has taken the success branch for `payment`
deliver_access(track_id, payment) ==
    IF packages = NoPackagesKey
    THEN RaisedHook
    ELSE LET invite_link == packages[payment.package]
         IN  IF invite_link = ""
             THEN DoneHook
             ELSE [pc |-> "send", track_id |-> track_id,
                   user_id |-> payment.user_id, package |-> payment.package,
                   invite_link |-> invite_link]

\* oxapay_webhook without the `if not track_id` test: the payload without
\* trackId goes on to get_payment(None)
oxapay_webhook_NoTrackIdTest(h, track_id, status, secret) ==
    /\ hook[h].pc = "idle"
    /\ IF h = 1 THEN TRUE ELSE hook[h - 1].pc # "idle"
    /\ LET payment == get_payment(payments, track_id)
           branch == webhook_branch(payment, status)
           after == IF branch = "success"
                    THEN deliver_access(track_id, payment)
                    ELSE DoneHook
       IN  /\ response' = IF after = RaisedHook THEN "http_500" ELSE branch
           /\ IF branch_status(branch) # ""
              THEN payments' = update_payment_status(
                           payments, track_id, branch_status(branch),
                           datetime_now(payments, track_id))
              ELSE UNCHANGED payments
           /\ hook' = [hook EXCEPT ![h] =
                   IF after = RaisedHook THEN DoneHook ELSE after]
    /\ UNCHANGED <<gateway, purchases, sent, catalog, oxapay_issued, init, watcher>>

\* one delivery, from the request to the first await that suspends or to the
\* response.  `secret` is whatever the caller sent as its secret: the handler
\* does not read it.  response is the tag the handler returns ("http_400" for
\* the HTTPException of a missing trackId, "http_500" for the one that wraps
\* an exception of deliver_access); on the success branch it is returned once
\* deliver_access has ended.
oxapay_webhook(h, track_id, status, secret) ==
    /\ hook[h].pc = "idle"
    /\ IF h = 1 THEN TRUE ELSE hook[h - 1].pc # "idle"
    /\ IF track_id = NoTrackId
       THEN /\ response' = "http_400"
            /\ hook' = [hook EXCEPT ![h] = DoneHook]
            /\ UNCHANGED payments
       ELSE LET payment == get_payment(payments, track_id)
                branch == webhook_branch(payment, status)
                after == IF branch = "success"
                         THEN deliver_access(track_id, payment)
                         ELSE DoneHook
            IN  /\ response' = IF after = RaisedHook THEN "http_500" ELSE branch
                /\ IF branch_status(branch) # ""
                   THEN payments' = update_payment_status(
                                payments, track_id, branch_status(branch),
                                datetime_now(payments, track_id))
                   ELSE UNCHANGED payments
                /\ hook' = [hook EXCEPT ![h] =
                        IF after = RaisedHook THEN DoneHook ELSE after]
    /\ UNCHANGED <<gateway, purchases, sent, catalog, oxapay_issued, init, watcher>>

\* deliver_access after send_message returned: add_purchase at today's price
DeliverSendOk(h) ==
    /\ hook[h].pc = "send"
    /\ sent' = send_message(sent, hook[h].user_id, "access", hook[h].track_id)
    /\ purchases' = add_purchase(purchases, hook[h].user_id, hook[h].package,
                                 get_prices(prices)[hook[h].package],
                                 hook[h].invite_link, hook[h].track_id)
    /\ hook' = [hook EXCEPT ![h] = DoneHook]
    /\ UNCHANGED <<gateway, payments, catalog, oxapay_issued, init, watcher, response>>

\* DeliverSendFails with add_purchase moved out of the try: the Purchase is
\* recorded although the notification was not sent
DeliverSendFails_PurchaseRecorded(h) ==
    /\ hook[h].pc = "send"
    /\ purchases' = add_purchase(purchases, hook[h].user_id, hook[h].package,
                                 get_prices(prices)[hook[h].package],
                                 hook[h].invite_link, hook[h].track_id)
    /\ hook' = [hook EXCEPT ![h] = HookEnded(hook[h], "send_failed")]
    /\ UNCHANGED <<gateway, payments, sent, catalog, oxapay_issued, init, watcher, response>>

\* deliver_access when send_message raised: the except branch only logs
DeliverSendFails(h) ==
    /\ hook[h].pc = "send"
    /\ hook' = [hook EXCEPT ![h] = HookEnded(hook[h], "send_failed")]
    /\ UNCHANGED <<gateway, ledger, catalog, oxapay_issued, init, watcher, response>>

\* ------------------------------------------------- oxapay.create_payment
\* the clock advances by one tick
Tick ==
    /\ time < MaxTime
    /\ time' = time + 1
    /\ UNCHANGED <<ledger, catalog, oxapay_issued, init, watcher, hook, response,
                   order_ids>>

\* create_payment up to the request body: the order_id it puts into "data"
create_payment(package, user_id) ==
    /\ BagCardinality(order_ids) < MaxOrders
    /\ order_ids' = order_ids (+) SetToBag({order_id(package, user_id, time)})
    /\ UNCHANGED <<ledger, catalog, oxapay_issued, init, watcher, hook, response,
                   time>>

\* ------------------------------------------------------------------ Next
\* the processor issues a track_id it has not issued before
FreshTrackId == oxapay_issued + 1

\* each call is made by another account: the payments of one run belong to
\* different users
CallerIds(i) == {u \in Users : u = 100 + i}

\* The payment lifecycle: callers, the processor's deliveries and edits of
\* the catalog entries the lifecycle reads.
Next ==
    \/ \E p \in PACKAGE_NAMES, v \in PriceValues : EditPrice(p, v)
    \/ \E p \in PACKAGE_NAMES, v \in InviteLinks : EditLink(p, v)
    \/ \E i \in InitIds : \E u \in CallerIds(i), p \in PACKAGE_NAMES :
          initiate_payment(i, u, p)
    \/ \E i \in InitIds : CreatingEditFails(i)
    \/ \E i \in InitIds : InvoiceCreated(i, FreshTrackId)
    \/ \E i \in InitIds : InvoiceFailed(i)
    \/ \E i \in InitIds : PresentOk(i)
    \/ \E i \in InitIds : PresentFails(i)
    \/ \E i \in InitIds : check_payment_expiry(i)
    \/ \E i \in InitIds : ExpirySendOk(i)
    \/ \E i \in InitIds : ExpirySendFails(i)
    \/ \E h \in HookIds, t \in PayloadTrackIds, s \in WebhookStatuses :
          oxapay_webhook(h, t, s, WEBHOOK_SECRET)
    \/ \E h \in HookIds : DeliverSendOk(h)
    \/ \E h \in HookIds : DeliverSendFails(h)

Spec == Init /\ [][Next]_vars

\* The same with what no action of the lifecycle reads: the admin's
\* toggle_package (package_status is read by the menu alone) and deliveries
\* by callers that do not hold the secret.
NextOpen ==
    \/ Next
    \/ \E p \in PACKAGE_NAMES : toggle_package(p)
    \/ \E h \in HookIds, t \in PayloadTrackIds, s \in WebhookStatuses,
          k \in ReceivedSecrets \ {WEBHOOK_SECRET} : oxapay_webhook(h, t, s, k)

SpecOpen == Init /\ [][NextOpen]_vars

\* The lifecycle with a video_links.json that loses its "packages".
NextNoPackages ==
    \/ Next
    \/ RemovePackages

SpecNoPackages == Init /\ [][NextNoPackages]_vars

\* payments.db as an earlier run of the process left it: the payment of
\* another account, its invoice shown and the process stopped before the
\* expiry task woke
InitRestarted ==
    /\ payments = [t \in {1} |->
                      [user_id |-> 100, package |-> "100_videos", amount |-> 15,
                       status |-> "pending", completed_at |-> NULL]]
    /\ purchases = EmptyBag
    /\ sent = EmptyBag
    /\ prices = DefaultPrices
    /\ package_status = [p \in PACKAGE_NAMES |-> TRUE]
    /\ packages = [p \in PACKAGE_NAMES |-> "https://t.me/+invite"]
    /\ oxapay_issued = 1
    /\ init = [i \in InitIds |-> IdleInit]
    /\ watcher = [i \in InitIds |-> NoWatcher]
    /\ hook = [h \in HookIds |-> IdleHook]
    /\ response = ""
    /\ time = 0
    /\ order_ids = EmptyBag

\* The lifecycle over an unchanged catalog, with a processor that may answer
\* with a track_id it has issued before.
NextRepeat ==
    \/ \E i \in InitIds : \E u \in CallerIds(i), p \in PACKAGE_NAMES :
          initiate_payment(i, u, p)
    \/ \E i \in InitIds : CreatingEditFails(i)
    \/ \E i \in InitIds, t \in 1..FreshTrackId : InvoiceCreated(i, t)
    \/ \E i \in InitIds : InvoiceFailed(i)
    \/ \E i \in InitIds : PresentOk(i)
    \/ \E i \in InitIds : PresentFails(i)
    \/ \E i \in InitIds : check_payment_expiry(i)
    \/ \E i \in InitIds : ExpirySendOk(i)
    \/ \E i \in InitIds : ExpirySendFails(i)
    \/ \E h \in HookIds, t \in PayloadTrackIds, s \in WebhookStatuses :
          oxapay_webhook(h, t, s, WEBHOOK_SECRET)
    \/ \E h \in HookIds : DeliverSendOk(h)
    \/ \E h \in HookIds : DeliverSendFails(h)

SpecRepeat == InitRestarted /\ [][NextRepeat]_vars

\* The lifecycle with a processor that never reports on a payment of the
\* table: its deliveries are for track_ids the table does not hold.
NextSilent ==
    \/ \E p \in PACKAGE_NAMES, v \in PriceValues : EditPrice(p, v)
    \/ \E p \in PACKAGE_NAMES, v \in InviteLinks : EditLink(p, v)
    \/ \E i \in InitIds : \E u \in CallerIds(i), p \in PACKAGE_NAMES :
          initiate_payment(i, u, p)
    \/ \E i \in InitIds : CreatingEditFails(i)
    \/ \E i \in InitIds : InvoiceCreated(i, FreshTrackId)
    \/ \E i \in InitIds : InvoiceFailed(i)
    \/ \E i \in InitIds : PresentOk(i)
    \/ \E i \in InitIds : PresentFails(i)
    \/ \E i \in InitIds : check_payment_expiry(i)
    \/ \E i \in InitIds : ExpirySendOk(i)
    \/ \E i \in InitIds : ExpirySendFails(i)
    \/ \E h \in HookIds, t \in PayloadTrackIds \ DOMAIN payments,
          s \in WebhookStatuses : oxapay_webhook(h, t, s, WEBHOOK_SECRET)

\* the event loop: a timer that is due fires, and a Telegram call that was
\* awaited returns or raises
Fairness ==
    \A i \in InitIds :
        /\ WF_vars(check_payment_expiry(i))
        /\ WF_vars(ExpirySendOk(i) \/ ExpirySendFails(i))

SpecSilent == Init /\ [][NextSilent]_vars /\ Fairness

\* The invoice requests alone: calls of create_payment as the clock runs.
NextOrders ==
    \/ Tick
    \/ \E p \in OrderPackages, u \in Users : create_payment(p, u)

SpecOrders == Init /\ [][NextOrders]_vars

\* ================================================================ claims
Terminal == {"completed", "expired", "failed"}

\* the step is handler h's first run: it takes a delivery
Handled(h) == hook[h].pc = "idle" /\ hook'[h].pc # "idle"

\* C1: for every track_id at most one Purchase row is written and at most one
\* access notification is sent, whatever deliveries arrive and however they
\* interleave with the expiry task.
C1_AtMostOneFulfillment ==
    \A t \in TrackIds : PurchasesFor(t) <= 1 /\ AccessNotices(t) <= 1

\* C2: when a Paid/Confirming delivery was handled while the expiry task of
\* the same track_id was suspended between its read of "pending" and its
\* write (the two ran concurrently), the status stays completed and no expiry
\* notice is sent.
C2_PaidBeatsExpiry ==
    [][\A i \in InitIds :
          (/\ watcher[i].pc = "send"
           /\ get_payment(payments, watcher[i].track_id).status = "completed")
          => (/\ get_payment(payments', watcher[i].track_id).status = "completed"
              /\ ExpiryNotices(watcher[i].track_id)' = ExpiryNotices(watcher[i].track_id))
      ]_vars

\* C3: once the stored status of a payment is completed, expired or failed,
\* no step changes it.
C3_TerminalIsFinal ==
    [][\A t \in DOMAIN payments :
          payments[t].status \in Terminal => payments'[t].status = payments[t].status
      ]_vars

\* C4: initiate_payment for a package that is disabled in the catalog ends
\* with PackageUnavailable: no invoice is requested, no payment row is
\* written and no expiry task is created.
C4_DisabledPackageRefused ==
    [][\A i \in InitIds, u \in Users, p \in PACKAGE_NAMES :
          (initiate_payment(i, u, p) /\ ~package_status[p])
          => (/\ init'[i].pc = "done"
              /\ init'[i].result = "PackageUnavailable"
              /\ UNCHANGED <<payments, oxapay_issued, watcher>>)
      ]_vars

\* C5: every Purchase row carries the account, the package and the amount of
\* the payment it was written for, the amount being the one stored when the
\* payment was initiated, also when the catalog price changed since.
C5_PurchaseMatchesIntent ==
    \A r \in DOMAIN purchases :
        LET payment == get_payment(payments, r.track_id)
        IN  /\ r.user_id = payment.user_id
            /\ r.package = payment.package
            /\ r.amount = payment.amount

\* C6: when the expiry task of a recorded payment has sent its notice and no
\* delivery has written the row (the task's write is the only one: no
\* webhook arrived for the track_id, or none that reported a change), the
\* status is expired, the account got exactly one expiry notice and no
\* Purchase row exists for the track_id.
C6_ExpiryWithoutWebhook ==
    \A i \in InitIds :
        watcher[i].pc = "notified" =>
            LET t == watcher[i].track_id
                payment == get_payment(payments, t)
            IN  /\ payment.completed_at >= 1
                /\ payment.completed_at = 1 =>
                      /\ payment.status = "expired"
                      /\ ExpiryNotices(t) = 1
                      /\ PurchasesFor(t) = 0
                      /\ AccessNotices(t) = 0

C6_Witness ==
    \E i \in InitIds :
        /\ watcher[i].pc = "notified"
        /\ get_payment(payments, watcher[i].track_id).completed_at = 1
        /\ ExpiryNotices(watcher[i].track_id) = 1

\* C7: a delivery whose secret does not pass verify_webhook_signature changes
\* no payment row, sends nothing and records no Purchase.
C7_UnverifiedChangesNothing ==
    [][\A h \in HookIds : Handled(h) =>
          \A t \in PayloadTrackIds, s \in WebhookStatuses, k \in ReceivedSecrets :
             (/\ ~verify_webhook_signature(WEBHOOK_SECRET, k)
              /\ oxapay_webhook(h, t, s, k))
             => UNCHANGED <<payments, purchases, sent>>
      ]_vars

\* C8: a delivery for a track_id that is not in the payments table is
\* answered "ignored" and changes nothing: no row is created or modified, no
\* Purchase is recorded and nothing is sent.
C8_UnknownTrackIgnored ==
    [][\A h \in HookIds : Handled(h) =>
          \/ /\ response' = "ignored"
             /\ hook'[h] = DoneHook
             /\ UNCHANGED <<payments, purchases, sent>>
          \/ \A t \in TrackIds, s \in WebhookStatuses :
                ~(t \notin DOMAIN payments /\ oxapay_webhook(h, t, s, WEBHOOK_SECRET))
      ]_vars

C8_Witness == response = "ignored" /\ DOMAIN payments # {}

\* C9: a delivery for a payment whose stored status is completed is answered
\* "already_processed" whatever status it reports, and leaves the row (status
\* and completed_at), the purchases and the sent notifications unchanged.
C9_CompletedAlreadyProcessed ==
    [][\A h \in HookIds : Handled(h) =>
          \/ /\ response' = "already_processed"
             /\ hook'[h] = DoneHook
             /\ UNCHANGED <<payments, purchases, sent>>
          \/ \A t \in TrackIds, s \in WebhookStatuses :
                ~(/\ get_payment(payments, t).status = "completed"
                  /\ oxapay_webhook(h, t, s, WEBHOOK_SECRET))
      ]_vars

C9_Witness ==
    /\ response = "already_processed"
    /\ \E t \in DOMAIN payments : payments[t].status = "completed"

\* C10: of the handlers that run at the same time for one track_id, one alone
\* makes the transition to completed and is in fulfillment; no two handlers
\* are in deliver_access for the same track_id together.
C10_OneHandlerFulfills ==
    \A h1, h2 \in HookIds :
        (/\ hook[h1].pc = "send"
         /\ hook[h2].pc = "send"
         /\ hook[h1].track_id = hook[h2].track_id)
        => h1 = h2

C12_FailedDeliveryNotRetried ==
    [][\A h \in HookIds :
          /\ (hook[h].pc = "send" /\ DeliverSendFails(h))
                => (/\ UNCHANGED <<payments, purchases, sent>>
                    /\ get_payment(payments', hook[h].track_id).status = "completed")
          /\ Handled(h) =>
                \A t \in TrackIds, s \in {"Paid", "Confirming"} :
                   (/\ \E g \in HookIds :
                          hook[g].pc = "send_failed" /\ hook[g].track_id = t
                    /\ oxapay_webhook(h, t, s, WEBHOOK_SECRET))
                   => (hook'[h] = DoneHook /\ UNCHANGED <<payments, purchases, sent>>)
      ]_vars

\* C13: a Paid/Confirming delivery that reaches deliver_access while the
\* catalog has no invite link for the package (no entry, an empty entry, or
\* no "packages" at all) sends nothing, records no Purchase and is not
\* answered with the 500 of an unexpected exception.
C13_MissingLinkHandled ==
    [][\A h \in HookIds : Handled(h) =>
          \A t \in TrackIds, s \in WebhookStatuses :
             (/\ webhook_branch(get_payment(payments, t), s) = "success"
              /\ IF packages = NoPackagesKey THEN TRUE
                 ELSE packages[get_payment(payments, t).package] = ""
              /\ oxapay_webhook(h, t, s, WEBHOOK_SECRET))
             => (/\ response' # "http_500"
                 /\ hook'[h] = DoneHook
                 /\ UNCHANGED <<purchases, sent>>)
      ]_vars

\* C14: the payments table holds one row per track_id (track_id is UNIQUE):
\* add_payment with a track_id that is in the table inserts nothing and
\* leaves the row's account, package, amount, status and completed_at as
\* they were.
C14_DuplicateInsertChangesNothing ==
    [][\A i \in InitIds : init[i].pc = "invoice" =>
          \A t \in DOMAIN payments :
             InvoiceCreated(i, t) => payments' = payments
      ]_vars

C14_Witness ==
    \E i \in InitIds :
        /\ init[i].pc = "present"
        /\ init[i].track_id \in DOMAIN payments
        /\ payments[init[i].track_id].user_id # init[i].user_id

\* C15: when the processor answers with a track_id that is already in the
\* payments table, initiate_payment does not show the invoice as created and
\* starts no expiry task for that track_id: a handler at the invoice message,
\* and an expiry task, exist only for a row the handler itself inserted.
C15_DuplicateTrackSurfaced ==
    \A i \in InitIds :
        /\ init[i].pc = "present" =>
              get_payment(payments, init[i].track_id).user_id = init[i].user_id
        /\ watcher[i].pc \in {"sleep", "send"} =>
              get_payment(payments, watcher[i].track_id).user_id = watcher[i].user_id

\* C16: in every payment row completed_at is set exactly when the status is
\* completed, expired or failed; a pending row has completed_at NULL.
C16_CompletedAtIffTerminal ==
    \A t \in DOMAIN payments :
        /\ payments[t].status \in Terminal \cup {"pending"}
        /\ payments[t].completed_at # NULL <=> payments[t].status \in Terminal

C16_Witness ==
    \E t \in DOMAIN payments :
        payments[t].status \in Terminal /\ payments[t].completed_at # NULL

\* C17: a delivery whose payload has no trackId is answered with 400,
\* whatever status it carries: no payment row is changed, nothing is sent and
\* no Purchase is recorded.
C17_MissingTrackIdRejected ==
    [][\A h \in HookIds : Handled(h) =>
          \/ /\ response' = "http_400"
             /\ hook'[h] = DoneHook
             /\ UNCHANGED <<payments, purchases, sent>>
          \/ \A s \in WebhookStatuses :
                ~oxapay_webhook(h, NoTrackId, s, WEBHOOK_SECRET)
      ]_vars

C17_Witness ==
    /\ response = "http_400"
    /\ \E t \in DOMAIN payments : payments[t].status = "pending"

C19_PendingEventuallyLeft ==
    \A i \in InitIds :
        (watcher[i].pc = "sleep")
        ~> (get_payment(payments, watcher[i].track_id).status \in Terminal)

\* C20: when the expiry task wakes and finds the status completed, expired
\* or failed, it ends without sending a notice and without touching the row.
C20_WatcherNoopOnTerminal ==
    [][\A i \in InitIds :
          (/\ watcher[i].pc = "sleep"
           /\ get_payment(payments, watcher[i].track_id).status \in Terminal
           /\ check_payment_expiry(i))
          => (/\ watcher'[i] = WatcherDone(watcher[i], "noop")
              /\ UNCHANGED <<payments, purchases, sent>>)
      ]_vars

C20_Witness ==
    \E i \in InitIds :
        /\ watcher[i].pc = "noop"
        /\ get_payment(payments, watcher[i].track_id).status \in Terminal
        /\ ExpiryNotices(watcher[i].track_id) = 0

\* C21: a Paid/Confirming delivery for a payment whose stored status is
\* expired or failed does not deliver access: nothing is sent, no Purchase is
\* recorded and the handler does not enter deliver_access.
C21_NoAccessAfterExpiredOrFailed ==
    [][\A h \in HookIds : Handled(h) =>
          \/ /\ hook'[h] = DoneHook
             /\ UNCHANGED <<purchases, sent>>
          \/ \A t \in TrackIds, s \in {"Paid", "Confirming"} :
                ~(/\ get_payment(payments, t).status \in {"expired", "failed"}
                  /\ oxapay_webhook(h, t, s, WEBHOOK_SECRET))
      ]_vars

\* C22: every payment row has exactly one expiry task once the handler that
\* inserted it has ended, also when the invoice message could not be shown;
\* no track_id has more than one.
C22_OneWatcherPerIntent ==
    \A t \in DOMAIN payments :
        LET tasks == {i \in InitIds :
                        watcher[i].pc # "none" /\ watcher[i].track_id = t}
        IN  /\ Cardinality(tasks) <= 1
            /\ \/ Cardinality(tasks) = 1
               \/ \E i \in InitIds : init[i].pc = "present" /\ init[i].track_id = t

\* C23: a fulfillment writes the status completed, then sends the access
\* notification, then records the Purchase: a handler is at the send only for
\* a row that was written, every track_id has at most as many Purchase rows
\* as access notifications sent, and a track_id with a Purchase has a row
\* that was written.
C23_FulfillmentOrder ==
    /\ \A h \in HookIds :
          hook[h].pc = "send" =>
              get_payment(payments, hook[h].track_id).completed_at # NULL
    /\ \A t \in TrackIds :
          /\ PurchasesFor(t) <= AccessNotices(t)
          /\ PurchasesFor(t) > 0 => get_payment(payments, t).completed_at # NULL

C23_Witness ==
    \E t \in DOMAIN payments :
        /\ payments[t].status = "completed"
        /\ PurchasesFor(t) = 1
        /\ AccessNotices(t) = 1

\* C24: no step sets the status of a payment back to pending: a row that is
\* not pending is not pending after any step.
C24_NeverBackToPending ==
    [][\A t \in DOMAIN payments :
          payments[t].status # "pending" =>
              (t \in DOMAIN payments' /\ payments'[t].status # "pending")
      ]_vars

C24_Witness ==
    /\ response = "pending"
    /\ \E t \in DOMAIN payments : payments[t].status \in {"expired", "failed"}

\* C26: the expiry task writes expired only together with a notice that was
\* sent: the step in which a task's send ends either sends one expiry notice
\* and writes expired, or (the send raised) leaves every payment row as it
\* was.
C26_ExpiredOnlyAfterNotice ==
    [][\A i \in InitIds :
          (watcher[i].pc = "send" /\ watcher'[i].pc # "send")
          => \/ /\ ExpiryNotices(watcher[i].track_id)' =
                       ExpiryNotices(watcher[i].track_id) + 1
                /\ payments'[watcher[i].track_id].status = "expired"
                /\ watcher'[i].pc = "notified"
             \/ /\ UNCHANGED <<payments, sent>>
                /\ watcher'[i].pc = "send_failed"
      ]_vars

C26_Witness ==
    \E i \in InitIds :
        /\ watcher[i].pc = "send_failed"
        /\ get_payment(payments, watcher[i].track_id).status = "pending"
        /\ ExpiryNotices(watcher[i].track_id) = 0

\* C27: a delivery that reports Expired or Failed sends nothing and records
\* no Purchase: it writes status and completed_at of the row of its track_id
\* and nothing else; no delivery, whatever it reports, touches the row of
\* another track_id or adds a row.
C27_WebhookWritesOneRow ==
    [][\A h \in HookIds : Handled(h) =>
          \A t \in PayloadTrackIds, s \in WebhookStatuses :
             oxapay_webhook(h, t, s, WEBHOOK_SECRET)
             => /\ DOMAIN payments' = DOMAIN payments
                /\ \A u \in DOMAIN payments \ {t} : payments'[u] = payments[u]
                /\ s \in {"Expired", "Failed"} =>
                      /\ UNCHANGED <<purchases, sent>>
                      /\ hook'[h] = DoneHook
                      /\ t \in DOMAIN payments =>
                            [payments'[t] EXCEPT
                               !.status = payments[t].status,
                               !.completed_at = payments[t].completed_at]
                            = payments[t]
      ]_vars

C27_Witness ==
    /\ response = "expired"
    /\ \E t, u \in DOMAIN payments :
          payments[t].status = "expired" /\ payments[u].status = "pending"

\* C25: any two calls of create_payment build different order_ids, also two
\* calls for the same package and the same account within one second of the
\* clock: no order_id was built twice.
C25_OrderIdsDistinct ==
    \A o \in DOMAIN order_ids : order_ids[o] <= 1

====
